---- MODULE Spec2Model ----
(***************************************************************************)
(* Model of src/agent.py: the tool-calling conversation loop (agent_loop), *)
(* the completion gateway (llm_completion) and the three filesystem tools. *)
(* Text that the code manipulates (input lines, file contents, old_str and *)
(* new_str) is a sequence of one-character strings; text that the code     *)
(* only stores or copies is a TLA+ string.                                 *)
(***************************************************************************)
EXTENDS Integers, Sequences, FiniteSets, TLC

VARIABLES
    pc,            \* position of agent_loop: await_input, await_model, exec_tools, terminated
    conversation,  \* the list `conversation` of agent_loop
    tool_calls,    \* the batch of the for loop at line 268 (<<>> outside it)
    idx,           \* 1-based position of the for loop at line 268 (0 outside it)
    fs,            \* the filesystem: absolute path -> [kind, content]
    env,           \* the names set in os.environ, fixed for the run
    issued,        \* number of tool-call ids the gateway has issued so far
    response,      \* the local `response` of agent_loop: what llm_completion last returned
    user_input,    \* the local `user_input` of agent_loop: the line last read
    runs,          \* history: the ids of the requests a tool implementation was invoked for
    exit_reason    \* why the process ended: none, exit_cmd, eof, interrupt, crash

vars ==
    <<pc, conversation, tool_calls, idx, fs, env, issued, response, user_input, runs,
      exit_reason>>

----------------------------------------------------------------------------
(* Bounds of the model. *)

\* Longest conversation the model explores.
MaxConv == 6
\* Largest number of tool-call requests in one gateway response.
MaxBatch == 2
\* Largest number of tool-call requests the gateway issues in one run.
MaxIssued == 2

----------------------------------------------------------------------------
(* Text helpers. *)

\* str.lower() on one character of the input alphabet.
LowerChar(c) ==
    CASE c = "E" -> "e"
      [] c = "X" -> "x"
      [] c = "I" -> "i"
      [] c = "T" -> "t"
      [] c = "Q" -> "q"
      [] c = "U" -> "u"
      [] OTHER -> c

\* str.lower(): every character lowered, length kept.
Lower(s) == [k \in 1..Len(s) |-> LowerChar(s[k])]

\* The characters str.strip() removes (str.isspace), as far as a string here can
\* hold them: vertical tab, U+001C..U+001F, U+0085 and the non-ASCII spaces have
\* no escape and are not in the alphabet of the lines.
IsSpace(c) == c \in {" ", "\t", "\n", "\r", "\f"}

RECURSIVE LStrip(_)
LStrip(s) == IF s # <<>> /\ IsSpace(Head(s)) THEN LStrip(Tail(s)) ELSE s

RECURSIVE RStrip(_)
RStrip(s) ==
    IF s # <<>> /\ IsSpace(s[Len(s)]) THEN RStrip(SubSeq(s, 1, Len(s) - 1)) ELSE s

\* Variant of Strip: only the leading whitespace is removed.
StripLeadingOnly(s) == LStrip(s)

\* str.strip(): leading and trailing whitespace removed.
Strip(s) == RStrip(LStrip(s))

\* TRUE iff sub occurs in s at 1-based position k.
OccursAt(s, sub, k) ==
    /\ k >= 1
    /\ k + Len(sub) - 1 <= Len(s)
    /\ SubSeq(s, k, k + Len(sub) - 1) = sub

\* str.find(sub): 0-based index of the leftmost occurrence, -1 when there is none.
Find(s, sub) ==
    LET hits == {k \in 1..(Len(s) + 1) : OccursAt(s, sub, k)}
    IN  IF hits = {} THEN -1
        ELSE (CHOOSE k \in hits : \A j \in hits : k <= j) - 1

\* str.replace(old, new, 1) for a non-empty old: the leftmost occurrence replaced.
ReplaceFirst(s, old, new) ==
    LET at == Find(s, old)
    IN  IF at = -1 THEN s
        ELSE SubSeq(s, 1, at) \o new \o SubSeq(s, at + Len(old) + 1, Len(s))

\* os.linesep of the platform (POSIX).
Linesep == <<"\n">>

RECURSIVE UniversalNewlines(_)
\* Reading in text mode with newline=None: "\r\n" and a lone "\r" become "\n".
UniversalNewlines(s) ==
    IF s = <<>> THEN <<>>
    ELSE IF Head(s) = "\r"
    THEN IF Len(s) >= 2 /\ s[2] = "\n"
         THEN <<"\n">> \o UniversalNewlines(Tail(Tail(s)))
         ELSE <<"\n">> \o UniversalNewlines(Tail(s))
    ELSE <<Head(s)>> \o UniversalNewlines(Tail(s))

RECURSIVE WriteNewlines(_)
\* Writing in text mode with newline=None: every "\n" becomes os.linesep.
WriteNewlines(s) ==
    IF s = <<>> THEN <<>>
    ELSE (IF Head(s) = "\n" THEN Linesep ELSE <<Head(s)>>) \o WriteNewlines(Tail(s))

----------------------------------------------------------------------------
(* JSON. A serialized payload is <<"json", v>> for the text of a JSON value *)
(* v, or <<"raw", t>> for text t that is not JSON.                          *)

\* json.dumps(v).
JsonDumps(v) == <<"json", v>>

\* json.loads(p): the value, or a JSONDecodeError.
JsonLoads(p) ==
    IF p[1] = "json" THEN [ok |-> TRUE, val |-> p[2]] ELSE [ok |-> FALSE, val |-> <<>>]

\* A JSON object is [obj |-> <function from keys to values>]; anything else is
\* [arr |-> ...] (a list), which has no .items().
IsDict(v) == "obj" \in DOMAIN v

----------------------------------------------------------------------------
(* The filesystem and path resolution. *)

\* The working directory of the process (Path.cwd()).
Cwd == "/w"

\* The absolute paths of the model.
AbsPaths == {"/w", "/w/a.txt", "/w/new.txt", "/w/no", "/w/no/f.txt"}

\* The path strings a tool call can carry.
PathStrs == {".", "a.txt", "/w/a.txt", "new.txt", "no/f.txt"}

\* Path.is_absolute().
IsAbsolute(p) == p \in AbsPaths

\* (Path.cwd() / p).resolve() for a relative p.
JoinCwd(p) ==
    CASE p = "."        -> Cwd
      [] p = "a.txt"    -> "/w/a.txt"
      [] p = "new.txt"  -> "/w/new.txt"
      [] p = "no/f.txt" -> "/w/no/f.txt"

\* resolve_abs_path: an absolute path is kept, a relative one is joined to the cwd.
resolve_abs_path(path_str) ==
    IF IsAbsolute(path_str) THEN path_str ELSE JoinCwd(path_str)

\* The directory that holds p ("/" for the working directory itself).
ParentOf(p) ==
    CASE p = "/w"          -> "/"
      [] p = "/w/a.txt"    -> "/w"
      [] p = "/w/new.txt"  -> "/w"
      [] p = "/w/no"       -> "/w"
      [] p = "/w/no/f.txt" -> "/w/no"

\* Path.name: the last component.
BaseName(p) ==
    CASE p = "/w"          -> "w"
      [] p = "/w/a.txt"    -> "a.txt"
      [] p = "/w/new.txt"  -> "new.txt"
      [] p = "/w/no"       -> "no"
      [] p = "/w/no/f.txt" -> "f.txt"

NoFile == [kind |-> "none", content |-> <<>>]
Dir == [kind |-> "dir", content |-> <<>>]
File(c) == [kind |-> "file", content |-> c]

\* The filesystem the process starts in: a working directory holding a.txt.
InitFs ==
    [p \in AbsPaths |->
        CASE p = "/w"       -> Dir
          [] p = "/w/a.txt" -> File(<<"a", "b", "a">>)
          [] OTHER          -> NoFile]

IsDirIn(f, p) == p = "/" \/ (p \in AbsPaths /\ f[p].kind = "dir")

\* All orders in which a directory's entries can be enumerated.
Orders(S) ==
    {s \in [1..Cardinality(S) -> S] : \A a, b \in 1..Cardinality(S) : a # b => s[a] # s[b]}

----------------------------------------------------------------------------
(* The tools. Each returns the set of its possible outcomes: a result or a  *)
(* raised exception, and the filesystem it leaves.                          *)

Returns(v, f) == [ok |-> TRUE, val |-> v, fs |-> f]
Raises(exc, f) == [ok |-> FALSE, val |-> exc, fs |-> f]

\* open(path, "r") / read_text / iterdir on something that is not there or of the wrong kind.
OsError(f, p, wantDir) ==
    IF f[p].kind = "none" THEN <<"FileNotFoundError", p>>
    ELSE IF wantDir THEN <<"NotADirectoryError", p>>
    ELSE <<"IsADirectoryError", p>>

read_file_tool(f, filename) ==
    LET full_path == resolve_abs_path(filename)
    IN  IF f[full_path].kind = "file"
        THEN {Returns([file_path |-> full_path,
                       content |-> UniversalNewlines(f[full_path].content)], f)}
        ELSE {Raises(OsError(f, full_path, FALSE), f)}

list_files_tool(f, path) ==
    LET full_path == resolve_abs_path(path)
        items == {q \in AbsPaths : ParentOf(q) = full_path /\ f[q].kind # "none"}
        entry(q) == [filename |-> BaseName(q),
                     type |-> IF f[q].kind = "file" THEN "file" ELSE "dir"]
    IN  IF f[full_path].kind = "dir"
        THEN {Returns([path |-> full_path,
                       files |-> [k \in 1..Cardinality(items) |-> entry(o[k])]], f)
                : o \in Orders(items)}
        ELSE {Raises(OsError(f, full_path, TRUE), f)}

\* Variant of WriteText: the text is appended to what the file holds.
WriteTextAppend(f, p, text) ==
    IF f[p].kind = "dir" THEN Raises(<<"IsADirectoryError", p>>, f)
    ELSE IF ~IsDirIn(f, ParentOf(p)) THEN Raises(<<"FileNotFoundError", p>>, f)
    ELSE Returns(<<>>, [f EXCEPT ![p] = File(f[p].content \o WriteNewlines(text))])

\* Path.write_text: creates or truncates the file; its directory must exist.
WriteText(f, p, text) ==
    IF f[p].kind = "dir" THEN Raises(<<"IsADirectoryError", p>>, f)
    ELSE IF ~IsDirIn(f, ParentOf(p)) THEN Raises(<<"FileNotFoundError", p>>, f)
    ELSE Returns(<<>>, [f EXCEPT ![p] = File(WriteNewlines(text))])

edit_file_tool(f, path, old_str, new_str) ==
    LET full_path == resolve_abs_path(path)
        original == UniversalNewlines(f[full_path].content)
        created == WriteText(f, full_path, new_str)
        edited == WriteText(f, full_path, ReplaceFirst(original, old_str, new_str))
    IN  IF old_str = <<>>
        THEN IF created.ok
             THEN {Returns([path |-> full_path, action |-> "created_file"], created.fs)}
             ELSE {created}
        ELSE IF f[full_path].kind # "file"
        THEN {Raises(OsError(f, full_path, FALSE), f)}
        ELSE IF Find(original, old_str) = -1
        THEN {Returns([path |-> full_path, action |-> "old_str not found"], f)}
        ELSE IF edited.ok
        THEN {Returns([path |-> full_path, action |-> "edited"], edited.fs)}
        ELSE {edited}

\* TOOL_REGISTRY: the registered names.
TOOL_REGISTRY == {"read_file", "list_files", "edit_file"}

\* The parameters of each registered tool (all required, none defaulted).
Params(name) ==
    CASE name = "read_file"  -> {"filename"}
      [] name = "list_files" -> {"path"}
      [] name = "edit_file"  -> {"path", "old_str", "new_str"}

\* tool(**tool_args): a TypeError when the keys are not exactly the parameters.
CallTool(f, name, args) ==
    IF DOMAIN args # Params(name) THEN {Raises(<<"TypeError", name>>, f)}
    ELSE CASE name = "read_file"  -> read_file_tool(f, args.filename)
           [] name = "list_files" -> list_files_tool(f, args.path)
           [] name = "edit_file"  -> edit_file_tool(f, args.path, args.old_str, args.new_str)

----------------------------------------------------------------------------
(* Inputs of the loop: console lines and gateway responses. *)

\* The lines the user can type.
InputLines ==
    { <<"e", "x", "i", "t">>,
      <<"Q", "u", "i", "t">>,
      <<" ", "e", "x", "i", "t">>,
      <<" ", "h", "i", " ">> }

\* More lines: upper case, surrounding whitespace, empty and blank lines.
InputLinesWide ==
    InputLines \cup
    { <<>>,
      <<" ", " ">>,
      <<"E", "X", "I", "T">>,
      <<"e", "x", "i", "t", " ">>,
      <<" ", "Q", "u", "i", "t", " ">>,
      <<"e", " ", "x", "i", "t">>,
      <<"\t", "h", "i">>,
      <<"h", "i", "\r">> }

\* The words that end the process (line 219).
ExitWords == { <<"e", "x", "i", "t">>, <<"q", "u", "i", "t">> }

\* The content field of a response message: <<>> is None, <<t>> is the text t.
ContentChoices == { <<>>, <<"">>, <<"Here are the files">> }

\* The content of the responses that carry tool calls: a commentary.
ToolContentChoices == { <<"Let me look">> }

\* Argument payloads as the model serializes them.
ObjPayload(f) == JsonDumps([obj |-> f])
ArrPayload == JsonDumps([arr |-> <<>>])
RawPayload == <<"raw", "{\"path\": ">>

Call(name, arguments) == [name |-> name, arguments |-> arguments]

\* The tool-call requests (name and argument payload) a response can carry.
RequestShapes ==
    { Call("read_file", ObjPayload([filename |-> "new.txt"])),
      Call("read_file", ObjPayload([path |-> "a.txt"])),
      Call("read_file", RawPayload),
      Call("read_file", ArrPayload),
      Call("list_files", ObjPayload([path |-> "."])),
      Call("list_files", ObjPayload([path |-> "/w/a.txt"])),
      Call("edit_file", ObjPayload([path |-> "new.txt", old_str |-> <<>>, new_str |-> <<"c">>])),
      Call("edit_file", ObjPayload([path |-> "a.txt", old_str |-> <<"a">>, new_str |-> <<"c">>])),
      Call("edit_file", ObjPayload([path |-> "a.txt", old_str |-> <<"c", "b">>, new_str |-> <<>>])),
      Call("delete_file", ObjPayload([path |-> "a.txt"])),
      Call("delete_file", RawPayload) }

\* The batches of a response: 1..MaxBatch requests, in emission order.
Batches == UNION { [1..n -> RequestShapes] : n \in 1..MaxBatch }

\* The environment variables llm_completion reads.
EnvNames == {"MODEL", "API_KEY"}

----------------------------------------------------------------------------
(* Messages. *)

SystemMsg == [role |-> "system", content |-> "SYSTEM_PROMPT"]
UserMsg(text) == [role |-> "user", content |-> text]
AssistantMsg(text) == [role |-> "assistant", content |-> text]
AssistantToolMsg(text, calls) ==
    [role |-> "assistant", content |-> text, tool_calls |-> calls]
\* Variant of ToolMsg: every tool message is tagged with the id of the batch's first request.
ToolMsgFirstId(id, payload) ==
    [role |-> "tool", tool_call_id |-> tool_calls[1].id, content |-> payload]

ToolMsg(id, payload) == [role |-> "tool", tool_call_id |-> id, content |-> payload]

\* Variant of ToolReply: a raised exception is reported without the error field.
ToolReplyNoError(out) ==
    IF out.ok THEN JsonDumps(out.val) ELSE JsonDumps([result |-> "failed"])

\* Lines 287-301: the content of the tool message for an invoked tool: the
\* serialized result, or the error payload of the except branch.
ToolReply(out) ==
    IF out.ok THEN JsonDumps(out.val)
    ELSE JsonDumps([error |-> <<"Tool execution failed: ", out.val>>])

\* What llm_completion returns: the error string of line 203, or the gateway's
\* response object, with or without choices.
NoResponse == [kind |-> "none", content |-> <<>>, tool_calls |-> <<>>]
ErrorString == [kind |-> "str", content |-> <<>>, tool_calls |-> <<>>]
NoChoices == [kind |-> "nochoices", content |-> <<>>, tool_calls |-> <<>>]
Completion(c, calls) == [kind |-> "message", content |-> c, tool_calls |-> calls]

\* getattr(assistant_message, 'content', '') or "" (line 243).
ContentOf(c) == IF c = <<>> THEN "" ELSE c[1]

\* The tool_call objects of a response: the k-th request with the k-th fresh id.
WithIds(batch, from) ==
    [k \in 1..Len(batch) |-> [id |-> from + k, function |-> batch[k]]]

----------------------------------------------------------------------------
(* The loop. *)

Init ==
    /\ pc = "await_input"
    /\ conversation = <<SystemMsg>>
    /\ tool_calls = <<>>
    /\ idx = 0
    /\ fs = InitFs
    /\ env \in SUBSET EnvNames
    /\ issued = 0
    /\ response = NoResponse
    /\ user_input = <<>>
    /\ runs = <<>>
    /\ exit_reason = "none"

Terminate(why) ==
    /\ pc' = "terminated"
    /\ exit_reason' = why
    /\ tool_calls' = <<>>
    /\ idx' = 0
    /\ UNCHANGED <<conversation, fs, env, issued, response, runs>>

\* Variant of EndTurn: the inner loop is not left, the gateway is called again.
EndTurnContinue ==
    /\ pc' = "await_model"
    /\ tool_calls' = <<>>
    /\ idx' = 0

\* Leaving the inner loop (break): back to the prompt.
EndTurn ==
    /\ pc' = "await_input"
    /\ tool_calls' = <<>>
    /\ idx' = 0

\* Variant of ReadInput: every user turn starts from a fresh history.
ReadInputReset(line) ==
    /\ pc = "await_input"
    /\ user_input' = line
    /\ IF Lower(line) \in ExitWords
       THEN Terminate("exit_cmd")
       ELSE /\ Len(conversation) + 2 <= MaxConv
            /\ conversation' = <<SystemMsg, UserMsg(Strip(line))>>
            /\ pc' = "await_model"
            /\ UNCHANGED <<tool_calls, idx, fs, env, issued, response, runs, exit_reason>>

\* Lines 214-223: a line is read; exit/quit end the process, anything else is a user message.
ReadInput(line) ==
    /\ pc = "await_input"
    /\ user_input' = line
    /\ IF Lower(line) \in ExitWords
       THEN Terminate("exit_cmd")
       ELSE /\ Len(conversation) + 2 <= MaxConv
            /\ conversation' = Append(conversation, UserMsg(Strip(line)))
            /\ pc' = "await_model"
            /\ UNCHANGED <<tool_calls, idx, fs, env, issued, response, runs, exit_reason>>

\* Lines 215-217: input() raises EOFError (end of input) or KeyboardInterrupt
\* (interrupt at the prompt); one handler ends the process for both. Signals
\* that arrive during a gateway call or a tool are not part of the model.
InputClosed(why) ==
    /\ pc = "await_input"
    /\ Terminate(why)
    /\ UNCHANGED user_input

\* Lines 178-179: os.environ[...] raises KeyError outside every try.
EnvMissing == ~(EnvNames \subseteq env)

LlmCrash ==
    /\ pc = "await_model"
    /\ EnvMissing
    /\ Terminate("crash")
    /\ UNCHANGED user_input

\* Variant of GatewayError: the error string is kept in the history as an assistant message.
GatewayErrorAppended ==
    /\ pc = "await_model"
    /\ ~EnvMissing
    /\ response' = ErrorString
    /\ conversation' = Append(conversation, AssistantMsg("I encountered an error"))
    /\ EndTurn
    /\ UNCHANGED <<fs, env, issued, user_input, runs, exit_reason>>

\* Lines 198-203 and 235-237: the gateway fails, llm_completion returns a string.
GatewayError ==
    /\ pc = "await_model"
    /\ ~EnvMissing
    /\ response' = ErrorString
    /\ EndTurn
    /\ UNCHANGED <<conversation, fs, env, issued, user_input, runs, exit_reason>>

\* Lines 302-307: a response without choices.
GatewayNoChoices ==
    /\ pc = "await_model"
    /\ ~EnvMissing
    /\ Len(conversation) + 1 <= MaxConv
    /\ response' = NoChoices
    /\ conversation' = Append(conversation, AssistantMsg("str(response)"))
    /\ EndTurn
    /\ UNCHANGED <<fs, env, issued, user_input, runs, exit_reason>>

\* Variant of GatewayFinal: the assistant message is appended only when the text is non-empty.
GatewayFinalSkipEmpty(c) ==
    /\ pc = "await_model"
    /\ ~EnvMissing
    /\ Len(conversation) + 1 <= MaxConv
    /\ response' = Completion(c, <<>>)
    /\ conversation' = IF ContentOf(c) = "" THEN conversation
                       ELSE Append(conversation, AssistantMsg(ContentOf(c)))
    /\ EndTurn
    /\ UNCHANGED <<fs, env, issued, user_input, runs, exit_reason>>

\* Variant of GatewayFinal: the inner loop goes round again after a final response.
GatewayFinalContinue(c) ==
    /\ pc = "await_model"
    /\ ~EnvMissing
    /\ Len(conversation) + 1 <= MaxConv
    /\ response' = Completion(c, <<>>)
    /\ conversation' = Append(conversation, AssistantMsg(ContentOf(c)))
    /\ pc' = "await_model"
    /\ UNCHANGED <<tool_calls, idx>>
    /\ UNCHANGED <<fs, env, issued, user_input, runs, exit_reason>>

\* Lines 241-253: a response without tool calls.
GatewayFinal(c) ==
    /\ pc = "await_model"
    /\ ~EnvMissing
    /\ Len(conversation) + 1 <= MaxConv
    /\ response' = Completion(c, <<>>)
    /\ conversation' = Append(conversation, AssistantMsg(ContentOf(c)))
    /\ EndTurn
    /\ UNCHANGED <<fs, env, issued, user_input, runs, exit_reason>>

\* Variant of GatewayToolCalls: the assistant message with the requests is not appended.
GatewayToolCallsNoAppend(c, batch) ==
    /\ pc = "await_model"
    /\ ~EnvMissing
    /\ Len(conversation) + 1 + Len(batch) <= MaxConv
    /\ issued + Len(batch) <= MaxIssued
    /\ LET calls == WithIds(batch, issued)
       IN  /\ response' = Completion(c, calls)
           /\ conversation' = conversation
           /\ tool_calls' = calls
    /\ idx' = 1
    /\ issued' = issued + Len(batch)
    /\ pc' = "exec_tools"
    /\ UNCHANGED <<fs, env, user_input, runs, exit_reason>>

\* Lines 241-266: a response with tool calls; the for loop starts.
GatewayToolCalls(c, batch) ==
    /\ pc = "await_model"
    /\ ~EnvMissing
    /\ Len(conversation) + 1 + Len(batch) <= MaxConv
    /\ issued + Len(batch) <= MaxIssued
    /\ LET calls == WithIds(batch, issued)
       IN  /\ response' = Completion(c, calls)
           /\ conversation' = Append(conversation, AssistantToolMsg(ContentOf(c), calls))
           /\ tool_calls' = calls
    /\ idx' = 1
    /\ issued' = issued + Len(batch)
    /\ pc' = "exec_tools"
    /\ UNCHANGED <<fs, env, user_input, runs, exit_reason>>

\* Variant of NextRequest: the for loop is left after the first request it answers.
NextRequestBreak ==
    /\ idx' = 0
    /\ pc' = "await_model"
    /\ tool_calls' = <<>>

\* The for loop moves to the next request, or the inner while loop to the next completion.
NextRequest ==
    IF idx < Len(tool_calls)
    THEN /\ idx' = idx + 1
         /\ pc' = "exec_tools"
         /\ UNCHANGED tool_calls
    ELSE /\ idx' = 0
         /\ pc' = "await_model"
         /\ tool_calls' = <<>>

\* Lines 270-273: json.loads and .items() raise into the handler at 309-312.
ArgsFault(tool_call) ==
    LET parsed == JsonLoads(tool_call.function.arguments)
    IN  ~parsed.ok \/ ~IsDict(parsed.val)

\* Lines 268-301: one iteration of the for loop.
ExecTool ==
    /\ pc = "exec_tools"
    /\ LET tool_call == tool_calls[idx]
           tool_name == tool_call.function.name
       IN  IF ArgsFault(tool_call)
           THEN /\ EndTurn
                /\ UNCHANGED <<conversation, fs, runs>>
           ELSE IF tool_name \notin TOOL_REGISTRY
           THEN /\ conversation' = Append(conversation,
                     ToolMsg(tool_call.id, JsonDumps([error |-> <<"Unknown tool: ", tool_name>>])))
                /\ NextRequest
                /\ UNCHANGED <<fs, runs>>
           ELSE \E out \in CallTool(fs, tool_name,
                                    JsonLoads(tool_call.function.arguments).val.obj) :
                /\ fs' = out.fs
                /\ runs' = Append(runs, tool_call.id)
                /\ conversation' = Append(conversation, ToolMsg(tool_call.id, ToolReply(out)))
                /\ NextRequest
    /\ UNCHANGED <<env, issued, response, user_input, exit_reason>>

Next ==
    \/ \E line \in InputLines : ReadInput(line)
    \/ \E why \in {"eof", "interrupt"} : InputClosed(why)
    \/ LlmCrash
    \/ GatewayError
    \/ GatewayNoChoices
    \/ \E c \in ContentChoices : GatewayFinal(c)
    \/ \E c \in ToolContentChoices, batch \in Batches : GatewayToolCalls(c, batch)
    \/ ExecTool

Spec == Init /\ [][Next]_vars

\* The requests of the turns followed to their end: one that runs, one whose
\* arguments do not parse, one that writes, one with an unknown name.
TurnShapes ==
    { Call("read_file", ObjPayload([filename |-> "new.txt"])),
      Call("read_file", RawPayload),
      Call("edit_file", ObjPayload([path |-> "new.txt", old_str |-> <<>>, new_str |-> <<"c">>])),
      Call("delete_file", ObjPayload([path |-> "a.txt"])) }

TurnBatches == UNION { [1..n -> TurnShapes] : n \in 1..MaxBatch }

\* The whole loop, with the gateway's requests drawn from TurnShapes.
TurnNext ==
    \/ \E line \in InputLines : ReadInput(line)
    \/ \E why \in {"eof", "interrupt"} : InputClosed(why)
    \/ LlmCrash
    \/ GatewayError
    \/ GatewayNoChoices
    \/ \E c \in ContentChoices : GatewayFinal(c)
    \/ \E c \in ToolContentChoices, batch \in TurnBatches : GatewayToolCalls(c, batch)
    \/ ExecTool

\* The loop is sequential: a started batch is worked off (ExecTool), and the
\* gateway, whenever it is called, eventually answers with an error or with a
\* response without tool calls.
FairSpec ==
    /\ Init
    /\ [][TurnNext]_vars
    /\ WF_vars(ExecTool)
    /\ SF_vars(GatewayError \/ \E c \in ContentChoices : GatewayFinal(c))

\* The filesystems a batch can find: a.txt with or without a carriage return,
\* new.txt missing or present.
FsChoices ==
    { [InitFs EXCEPT !["/w/a.txt"] = File(a), !["/w/new.txt"] = n] :
        a \in { <<"a", "b", "a">>, <<"\r", "a", "a">> },
        n \in { NoFile, File(<<"b">>) } }

\* The tool calls with parsable arguments over more paths and texts.
WideShapes ==
    { Call("edit_file", ObjPayload([path |-> p, old_str |-> o, new_str |-> n])) :
        p \in {"a.txt", "new.txt", "no/f.txt", "."},
        o \in { <<>>, <<"a">>, <<"c">>, <<"\n">> },
        n \in { <<"c">>, <<"\r", "c">>, <<>> } }
    \cup { Call("read_file", ObjPayload([filename |-> p])) : p \in {"a.txt", "new.txt", "."} }

\* The loop right after a response with one or two of these calls was appended.
ToolInit ==
    \E batch \in [1..1 -> WideShapes] \cup [1..2 -> WideShapes] :
        LET calls == WithIds(batch, 0)
        IN  /\ pc = "exec_tools"
            /\ conversation = <<SystemMsg, UserMsg(<<"h", "i">>),
                                AssistantToolMsg("Let me look", calls)>>
            /\ tool_calls = calls
            /\ idx = 1
            /\ fs \in FsChoices
            /\ env = EnvNames
            /\ issued = Len(batch)
            /\ response = Completion(<<"Let me look">>, calls)
            /\ user_input = <<" ", "h", "i", " ">>
            /\ runs = <<>>
            /\ exit_reason = "none"

\* The batch is worked off and the turn ends with an error or a final response.
ToolNext ==
    \/ ExecTool
    \/ GatewayError
    \/ \E c \in ContentChoices : GatewayFinal(c)

ToolSpec == ToolInit /\ [][ToolNext]_vars

\* The loop with a gateway that never asks for tools, over the wider set of lines.
InputNext ==
    \/ \E line \in InputLinesWide : ReadInput(line)
    \/ \E why \in {"eof", "interrupt"} : InputClosed(why)
    \/ LlmCrash
    \/ GatewayError
    \/ \E c \in ContentChoices : GatewayFinal(c)

InputSpec == Init /\ [][InputNext]_vars

----------------------------------------------------------------------------
(* Properties. *)

Last(s) == s[Len(s)]

HasCalls(m) == m.role = "assistant" /\ "tool_calls" \in DOMAIN m

IsErrorPayload(p) == p[1] = "json" /\ "error" \in DOMAIN p[2]

\* The tool messages after position a that answer the request id.
AnswersTo(conv, a, id) ==
    {b \in (a + 1)..Len(conv) : conv[b].role = "tool" /\ conv[b].tool_call_id = id}

\* Every request of every assistant message has exactly one answer after it.
Paired(conv) ==
    \A a \in 1..Len(conv) :
        HasCalls(conv[a]) =>
            \A k \in 1..Len(conv[a].tool_calls) :
                Cardinality(AnswersTo(conv, a, conv[a].tool_calls[k].id)) = 1

\* The state the for loop is in after the request at idx has been answered.
Continues ==
    IF idx < Len(tool_calls)
    THEN pc' = "exec_tools" /\ idx' = idx + 1 /\ tool_calls' = tool_calls
    ELSE pc' = "await_model"

\* C1: whenever the loop is about to invoke the gateway, every tool-call request
\* of every assistant message in the conversation is answered by exactly one later
\* tool message with its tool_call_id (ids are distinct in this model).
C1_PairingAtGatewayCall == pc = "await_model" => Paired(conversation)

\* C2: when the argument payload of the request at idx cannot be parsed, the step
\* appends one tool message with an error payload and that request's id, and the
\* loop goes on with the next request (or the next completion).
C2_MalformedArgsAnswered ==
    [][(pc = "exec_tools" /\ ~JsonLoads(tool_calls[idx].function.arguments).ok)
         => /\ Len(conversation') = Len(conversation) + 1
            /\ Last(conversation').role = "tool"
            /\ Last(conversation').tool_call_id = tool_calls[idx].id
            /\ IsErrorPayload(Last(conversation').content)
            /\ Continues]_vars

\* C3: for a request whose name is not a registry key, whatever its arguments, the
\* step appends exactly the tool message {"error": "Unknown tool: <name>"} with the
\* request's id, runs no tool (the filesystem is unchanged) and the loop goes on.
C3_UnknownToolAnswered ==
    [][(pc = "exec_tools" /\ tool_calls[idx].function.name \notin TOOL_REGISTRY)
         => /\ conversation' = Append(conversation,
                  [role |-> "tool", tool_call_id |-> tool_calls[idx].id,
                   content |-> JsonDumps([error |->
                       <<"Unknown tool: ", tool_calls[idx].function.name>>])])
            /\ fs' = fs
            /\ Continues]_vars

\* The request at idx reaches a registered tool, and the tool raises.
ToolFaults ==
    /\ pc = "exec_tools"
    /\ JsonLoads(tool_calls[idx].function.arguments).ok
    /\ IsDict(JsonLoads(tool_calls[idx].function.arguments).val)
    /\ tool_calls[idx].function.name \in TOOL_REGISTRY
    /\ \E out \in CallTool(fs, tool_calls[idx].function.name,
                           JsonLoads(tool_calls[idx].function.arguments).val.obj) : ~out.ok

\* C4: when a registered tool raises for a request with parsable arguments, the
\* step appends exactly one tool message, an error payload describing the failure
\* with the request's id, and the for loop goes on to the next request of the batch.
C4_ToolFaultAnswered ==
    [][ToolFaults
         => /\ Len(conversation') = Len(conversation) + 1
            /\ SubSeq(conversation', 1, Len(conversation)) = conversation
            /\ Last(conversation').role = "tool"
            /\ Last(conversation').tool_call_id = tool_calls[idx].id
            /\ IsErrorPayload(Last(conversation').content)
            /\ Last(conversation').content[2].error[1] = "Tool execution failed: "
            /\ fs' = fs
            /\ Continues]_vars

\* A tool raised for one request of a batch, and the next request was answered after it.
C4_Witness ==
    /\ Len(conversation) >= 2
    /\ conversation[Len(conversation) - 1].role = "tool"
    /\ IsErrorPayload(conversation[Len(conversation) - 1].content)
    /\ conversation[Len(conversation) - 1].content[2].error[1] = "Tool execution failed: "
    /\ Last(conversation).role = "tool"
    /\ Last(conversation).tool_call_id = conversation[Len(conversation) - 1].tool_call_id + 1

\* C5: the process ends only through an exit/quit line, end of input or an interrupt.
C5_OnlyCleanExits ==
    pc = "terminated" => exit_reason \in {"exit_cmd", "eof", "interrupt"}

\* C6: when the gateway returns an error string, the conversation is left as it
\* was when the gateway was invoked, and the loop is back at the prompt (no retry).
C6_TransportErrorLeavesHistory ==
    [][(pc = "await_model" /\ pc' # "terminated" /\ response'.kind = "str")
         => /\ conversation' = conversation
            /\ fs' = fs
            /\ pc' = "await_input"]_vars

\* The gateway failed after a batch of the same turn: the tool messages are still
\* the end of the conversation.
C6_Witness ==
    /\ pc = "await_input"
    /\ response.kind = "str"
    /\ Last(conversation).role = "tool"

\* C7: when a response carries no tool-call requests, exactly one assistant message
\* with the response text ("" for no text) is appended, no tool runs, and the turn ends.
C7_FinalAnswerAppended ==
    [][(pc = "await_model" /\ pc' # "terminated"
            /\ response'.kind = "message" /\ response'.tool_calls = <<>>)
         => /\ conversation' = Append(conversation,
                  [role |-> "assistant",
                   content |-> IF response'.content = <<>> THEN ""
                               ELSE response'.content[1]])
            /\ fs' = fs
            /\ pc' = "await_input"]_vars

\* A response with empty text and no tool calls ended a turn and is in the history.
C7_Witness ==
    /\ pc = "await_input"
    /\ response.kind = "message"
    /\ response.tool_calls = <<>>
    /\ response.content = <<>>
    /\ Last(conversation) = [role |-> "assistant", content |-> ""]

\* C8: a turn that is executing tools goes on to the next request or to the next
\* gateway call (then with every request of the batch answered), and a turn
\* returns to the prompt only from a gateway call that returned an error or a
\* response without tool calls.
C8_BatchThenModel ==
    [][/\ pc = "exec_tools" => pc' \in {"exec_tools", "await_model"}
       /\ (pc = "exec_tools" /\ pc' = "await_model") => Paired(conversation')
       /\ (pc # "await_input" /\ pc' = "await_input")
            => (pc = "await_model" /\ response'.tool_calls = <<>>)]_vars

\* The k-th of the m messages after position a answers the k-th request of calls.
AnsweredInOrder(conv, a, calls, m) ==
    /\ a >= 1
    /\ a + m = Len(conv)
    /\ m <= Len(calls)
    /\ \A k \in 1..m :
          /\ conv[a + k].role = "tool"
          /\ conv[a + k].tool_call_id = calls[k].id

\* C9: the assistant message with the text and the full list r1..rn comes first,
\* and the tool messages follow it in the order of r1..rn: while request idx is
\* next, exactly the first idx-1 requests are answered, in order; when the gateway
\* is called after a batch, all n are.
C9_EmissionOrder ==
    /\ pc = "exec_tools" =>
          /\ tool_calls = response.tool_calls
          /\ idx \in 1..Len(tool_calls)
          /\ AnsweredInOrder(conversation, Len(conversation) - (idx - 1), tool_calls, idx - 1)
          /\ conversation[Len(conversation) - (idx - 1)] =
                [role |-> "assistant",
                 content |-> IF response.content = <<>> THEN "" ELSE response.content[1],
                 tool_calls |-> response.tool_calls]
    /\ (pc = "await_model" /\ Last(conversation).role = "tool") =>
          /\ AnsweredInOrder(conversation, Len(conversation) - Len(response.tool_calls),
                             response.tool_calls, Len(response.tool_calls))
          /\ HasCalls(conversation[Len(conversation) - Len(response.tool_calls)])
          /\ conversation[Len(conversation) - Len(response.tool_calls)].tool_calls
                = response.tool_calls

\* A batch of two requests was answered in order and the gateway is called again.
C9_Witness ==
    /\ pc = "await_model"
    /\ Len(response.tool_calls) = 2
    /\ Last(conversation).role = "tool"
    /\ Last(conversation).tool_call_id = response.tool_calls[2].id
    /\ conversation[Len(conversation) - 1].tool_call_id = response.tool_calls[1].id

\* The conversation starts with the system message and holds no other one.
SeededOnce ==
    /\ Len(conversation) >= 1
    /\ conversation[1] = [role |-> "system", content |-> "SYSTEM_PROMPT"]
    /\ \A k \in 2..Len(conversation) : conversation[k].role # "system"

\* A step leaves the conversation alone or appends one message to its end.
AppendOnly ==
    \/ conversation' = conversation
    \/ /\ Len(conversation') = Len(conversation) + 1
       /\ SubSeq(conversation', 1, Len(conversation)) = conversation

\* C10: in every reachable state the conversation begins with the system message
\* and holds no other system message, and every step leaves it unchanged or
\* appends to its end.
C10_ConversationShape == [](SeededOnce) /\ [][AppendOnly]_vars

\* A second user turn was appended after a first turn that used a tool.
C10_Witness ==
    /\ Len(conversation) >= 5
    /\ Last(conversation).role = "user"
    /\ \E k \in 2..Len(conversation) : conversation[k].role = "tool"

----------------------------------------------------------------------------
(* Input classification. *)

UpperOf(c) ==
    CASE c = "e" -> "E"
      [] c = "x" -> "X"
      [] c = "i" -> "I"
      [] c = "t" -> "T"
      [] c = "q" -> "Q"
      [] c = "u" -> "U"

\* The line is the word exit or quit, each letter in either case.
IsExitLiteral(line) ==
    \E w \in { <<"e", "x", "i", "t">>, <<"q", "u", "i", "t">> } :
        /\ Len(line) = Len(w)
        /\ \A k \in 1..Len(w) : line[k] \in {w[k], UpperOf(w[k])}

Whitespace == {" ", "\t", "\n", "\r", "\f"}

\* t is line without its leading and trailing whitespace.
IsTrimOf(t, line) ==
    \E i, j \in 0..Len(line) :
        /\ i + j <= Len(line)
        /\ \A k \in 1..i : line[k] \in Whitespace
        /\ \A k \in (Len(line) - j + 1)..Len(line) : line[k] \in Whitespace
        /\ t = SubSeq(line, i + 1, Len(line) - j)
        /\ t # <<>> => (t[1] \notin Whitespace /\ t[Len(t)] \notin Whitespace)

\* C11: a line that is read ends the process, with the conversation untouched and
\* no gateway call, exactly when it is exit or quit in any letter case; every other
\* line appends one user message holding the trimmed line and starts a gateway call.
C11_InputClassification ==
    [][(pc = "await_input" /\ pc' # "await_input" /\ exit_reason' \notin {"eof", "interrupt"})
         => IF IsExitLiteral(user_input')
            THEN /\ pc' = "terminated"
                 /\ exit_reason' = "exit_cmd"
                 /\ conversation' = conversation
            ELSE /\ pc' = "await_model"
                 /\ exit_reason' = "none"
                 /\ Len(conversation') = Len(conversation) + 1
                 /\ SubSeq(conversation', 1, Len(conversation)) = conversation
                 /\ Last(conversation').role = "user"
                 /\ IsTrimOf(Last(conversation').content, user_input')]_vars

\* The line " Quit " was read: it is a user message "Quit", not a command.
C11_Witness ==
    /\ pc = "await_model"
    /\ user_input = <<" ", "Q", "u", "i", "t", " ">>
    /\ Last(conversation) = [role |-> "user", content |-> <<"Q", "u", "i", "t">>]

----------------------------------------------------------------------------
(* Turn termination. *)

\* C12: no cap on the iterations of a turn, and with a gateway that can be called
\* (its configuration is set) and eventually answers with an error or without tool
\* calls, every turn in progress eventually returns to the prompt.
C12_TurnTerminates ==
    ((pc \in {"await_model", "exec_tools"}) /\ ~EnvMissing) ~> (pc = "await_input")

\* One turn with two consecutive batches (as many as the bound on issued requests
\* allows): the gateway is called a third time in the same turn.
C12_Witness ==
    /\ pc = "await_model"
    /\ Len(conversation) = 6
    /\ conversation[2].role = "user"
    /\ HasCalls(conversation[3])
    /\ conversation[4].role = "tool"
    /\ HasCalls(conversation[5])
    /\ conversation[6].role = "tool"

----------------------------------------------------------------------------
(* History growth. *)

\* The first user turn has ended after exactly one batch and a final text response.
OneBatchTurnDone ==
    /\ pc = "await_input"
    /\ response.kind = "message"
    /\ response.tool_calls = <<>>
    /\ Len(conversation) >= 4
    /\ HasCalls(conversation[3])
    /\ Cardinality({k \in 1..Len(conversation) : conversation[k].role = "user"}) = 1
    /\ Cardinality({k \in 1..Len(conversation) : HasCalls(conversation[k])}) = 1
    /\ Last(conversation).role = "assistant"
    /\ ~HasCalls(Last(conversation))

\* C13: a first turn answered by one batch of n requests and then a final text
\* ends with 1 + 1 + 1 + n + 1 messages: system, user, assistant with the tool
\* calls, the n tool messages in order, the final assistant message.
C13_HistoryGrowth ==
    OneBatchTurnDone =>
        LET n == Len(conversation[3].tool_calls)
        IN  /\ Len(conversation) = 1 + 1 + 1 + n + 1
            /\ conversation[1].role = "system"
            /\ conversation[2].role = "user"
            /\ \A k \in 1..n :
                  /\ conversation[3 + k].role = "tool"
                  /\ conversation[3 + k].tool_call_id = conversation[3].tool_calls[k].id
            /\ conversation[4 + n] =
                  [role |-> "assistant",
                   content |-> IF response.content = <<>> THEN "" ELSE response.content[1]]

\* list_files on "." and then "Here are the files": five messages.
C13_Witness ==
    /\ OneBatchTurnDone
    /\ Len(conversation) = 5
    /\ conversation[3].tool_calls[1].function.name = "list_files"
    /\ conversation[4].content =
          JsonDumps([path |-> "/w", files |-> <<[filename |-> "a.txt", type |-> "file"]>>])
    /\ conversation[5].content = "Here are the files"

----------------------------------------------------------------------------
(* The edit_file and read_file tools, called through the loop. *)

\* The arguments of the request the for loop is at.
CurArgs == JsonLoads(tool_calls[idx].function.arguments).val.obj

\* The for loop is at an edit_file request with its three arguments.
AtEdit ==
    /\ pc = "exec_tools"
    /\ tool_calls[idx].function.name = "edit_file"
    /\ JsonLoads(tool_calls[idx].function.arguments).ok
    /\ IsDict(JsonLoads(tool_calls[idx].function.arguments).val)
    /\ DOMAIN CurArgs = {"path", "old_str", "new_str"}

\* The file the request at idx names.
CurPath == resolve_abs_path(CurArgs.path)

\* The step answers the request at idx with the result {path, action}.
RepliesAction(action) ==
    /\ Len(conversation') = Len(conversation) + 1
    /\ Last(conversation') =
          [role |-> "tool", tool_call_id |-> tool_calls[idx].id,
           content |-> JsonDumps([path |-> CurPath, action |-> action])]

\* The step leaves p a file with content exactly X and reports created_file.
CreatesFile ==
    /\ fs'[CurPath] = [kind |-> "file", content |-> CurArgs.new_str]
    /\ RepliesAction("created_file")

\* C14 as stated: edit_file(p, "", X) leaves p a file with content exactly X and
\* returns created_file, for every path p and whatever p was before.
C14_CreateAlways ==
    [][(AtEdit /\ CurArgs.old_str = <<>>) => CreatesFile]_vars

\* C14, amended: edit_file(p, "", X) leaves p a file with content exactly X and
\* returns created_file whenever p is not a directory and the directory that
\* holds p exists, whatever file content p had or if it did not exist.
C14_CreateWhereWritable ==
    [][(/\ AtEdit
        /\ CurArgs.old_str = <<>>
        /\ fs[CurPath].kind # "dir"
        /\ (ParentOf(CurPath) = "/" \/ fs[ParentOf(CurPath)].kind = "dir"))
         => CreatesFile]_vars

\* a.txt, which held other text, was overwritten with "c" by the first request.
C14_Witness ==
    /\ Len(conversation) = 4
    /\ conversation[3].tool_calls[1].function =
          Call("edit_file", ObjPayload([path |-> "a.txt", old_str |-> <<>>, new_str |-> <<"c">>]))
    /\ conversation[4].content = JsonDumps([path |-> "/w/a.txt", action |-> "created_file"])
    /\ fs["/w/a.txt"] = [kind |-> "file", content |-> <<"c">>]

\* S occurs in C at position k (1-based).
OccursIn(C, S, k) ==
    /\ k >= 1
    /\ k + Len(S) - 1 <= Len(C)
    /\ \A j \in 1..Len(S) : C[k + j - 1] = S[j]

Occurs(C, S) == \E k \in 1..Len(C) : OccursIn(C, S, k)

\* R is C with its leftmost occurrence of S replaced by X, all else untouched.
IsLeftmostReplaced(R, C, S, X) ==
    \E k \in 1..Len(C) :
        /\ OccursIn(C, S, k)
        /\ \A j \in 1..(k - 1) : ~OccursIn(C, S, j)
        /\ R = SubSeq(C, 1, k - 1) \o X \o SubSeq(C, k + Len(S), Len(C))

\* C15: for non-empty S occurring in the content C of the file p, edit_file(p, S, X)
\* writes C with only the leftmost occurrence of S replaced by X and returns edited.
C15_FirstOccurrenceReplaced ==
    [][(/\ AtEdit
        /\ CurArgs.old_str # <<>>
        /\ fs[CurPath].kind = "file"
        /\ Occurs(fs[CurPath].content, CurArgs.old_str))
         => /\ fs'[CurPath].kind = "file"
            /\ IsLeftmostReplaced(fs'[CurPath].content, fs[CurPath].content,
                                  CurArgs.old_str, CurArgs.new_str)
            /\ RepliesAction("edited")]_vars

\* C16: for non-empty S that does not occur in the content of the existing file p,
\* edit_file(p, S, X) leaves the file as it is and the tool message is the normal
\* result with action "old_str not found", not an error payload.
C16_MissLeavesFile ==
    [][(/\ AtEdit
        /\ CurArgs.old_str # <<>>
        /\ fs[CurPath].kind = "file"
        /\ ~Occurs(fs[CurPath].content, CurArgs.old_str))
         => /\ fs' = fs
            /\ RepliesAction("old_str not found")
            /\ ~IsErrorPayload(Last(conversation').content)]_vars

\* The batch is edit_file(p, "", X) followed by read_file of the same file.
CreateThenRead ==
    /\ Len(conversation) >= 3
    /\ HasCalls(conversation[3])
    /\ Len(conversation[3].tool_calls) = 2
    /\ conversation[3].tool_calls[1].function.name = "edit_file"
    /\ JsonLoads(conversation[3].tool_calls[1].function.arguments).ok
    /\ DOMAIN JsonLoads(conversation[3].tool_calls[1].function.arguments).val.obj
          = {"path", "old_str", "new_str"}
    /\ JsonLoads(conversation[3].tool_calls[1].function.arguments).val.obj.old_str = <<>>
    /\ conversation[3].tool_calls[2].function.name = "read_file"
    /\ JsonLoads(conversation[3].tool_calls[2].function.arguments).ok
    /\ DOMAIN JsonLoads(conversation[3].tool_calls[2].function.arguments).val.obj = {"filename"}
    /\ resolve_abs_path(JsonLoads(conversation[3].tool_calls[2].function.arguments).val.obj.filename)
          = resolve_abs_path(JsonLoads(conversation[3].tool_calls[1].function.arguments).val.obj.path)

\* C17: edit_file(p, "", X) followed by read_file(p) returns content exactly X:
\* once both requests of such a batch are answered, the second tool message is
\* the result {file_path, content: X}.
C17_RoundTrip ==
    (CreateThenRead /\ Len(conversation) >= 5) =>
        conversation[5].content =
            JsonDumps([file_path |->
                          resolve_abs_path(JsonLoads(
                              conversation[3].tool_calls[1].function.arguments).val.obj.path),
                       content |->
                          JsonLoads(conversation[3].tool_calls[1].function.arguments).val.obj.new_str])

----------------------------------------------------------------------------
(* The gateway's input, the executions of tools, and the shape of tool messages. *)

\* C18: whenever the gateway is invoked, the last message of the conversation
\* has role user (first call of a turn) or tool (call after a batch), never
\* assistant or system.
C18_LastMessageAtGatewayCall ==
    pc = "await_model" => Last(conversation).role \in {"user", "tool"}

\* The gateway is about to be invoked again after an answered batch.
C18_Witness ==
    /\ pc = "await_model"
    /\ ~EnvMissing
    /\ Last(conversation).role = "tool"

\* The requests the assistant messages of the conversation carry.
RequestsOf(conv) ==
    UNION { { conv[i].tool_calls[k] : k \in 1..Len(conv[i].tool_calls) } :
              i \in { j \in 1..Len(conv) : HasCalls(conv[j]) } }

\* The request at idx is one that cannot change the filesystem.
AtReadOnlyRequest ==
    /\ pc = "exec_tools"
    /\ \/ tool_calls[idx].function.name \in {"read_file", "list_files"}
       \/ tool_calls[idx].function.name \notin TOOL_REGISTRY

\* C19: each request is executed at most once and only if its name is registered
\* and its arguments parse to an object; no execution is made for anything but a
\* request of the conversation; a tool fault or a gateway failure causes no second
\* execution; read_file, list_files, unknown-tool requests and edit_file misses
\* (a non-empty old_str that does not occur in the content of the file) leave the
\* filesystem as it is.
C19_AtMostOnceExecution ==
    /\ [](/\ \A i, j \in 1..Len(runs) : runs[i] = runs[j] => i = j
          /\ Len(runs) <= issued
          /\ \A i \in 1..Len(runs) :
                \E r \in RequestsOf(conversation) :
                    /\ r.id = runs[i]
                    /\ r.function.name \in TOOL_REGISTRY
                    /\ JsonLoads(r.function.arguments).ok
                    /\ IsDict(JsonLoads(r.function.arguments).val))
    /\ [][/\ runs' # runs =>
                /\ pc = "exec_tools"
                /\ runs' = Append(runs, tool_calls[idx].id)
                /\ Len(conversation') = Len(conversation) + 1
                /\ Last(conversation').role = "tool"
                /\ Last(conversation').tool_call_id = tool_calls[idx].id
          /\ pc # "exec_tools" => (runs' = runs /\ fs' = fs)
          /\ AtReadOnlyRequest => fs' = fs
          /\ (/\ AtEdit
              /\ CurArgs.old_str # <<>>
              /\ fs[CurPath].kind = "file"
              /\ ~Occurs(fs[CurPath].content, CurArgs.old_str)) => fs' = fs
         ]_vars

\* C20: every tool message is preceded, with only tool messages between, by an
\* assistant message carrying tool calls; the k-th tool message after that
\* assistant message has the id of its k-th call; so there are never more tool
\* messages after it than it has calls, also when the turn ended on the error path.
C20_ToolMessagesWellFormed ==
    \A b \in 1..Len(conversation) :
        conversation[b].role = "tool" =>
            \E a \in 1..(b - 1) :
                /\ HasCalls(conversation[a])
                /\ \A j \in (a + 1)..b : conversation[j].role = "tool"
                /\ b - a <= Len(conversation[a].tool_calls)
                /\ conversation[b].tool_call_id = conversation[a].tool_calls[b - a].id

\* A turn ended on the error path with the first of two requests answered.
C20_Witness ==
    /\ pc = "await_input"
    /\ Len(conversation) = 4
    /\ HasCalls(conversation[3])
    /\ Len(conversation[3].tool_calls) = 2
    /\ conversation[4].role = "tool"

====
